---- MODULE Spec2Model ----
(***************************************************************************)
(* Token and AST node model of the pattern-query language                  *)
(* (fixer_v2/query/type.go): Token, HoleConfig and the four Node variants  *)
(* PatternNode, HoleNode, TextNode and BlockNode with their methods.       *)
(*                                                                         *)
(* A node is represented by the values of its fields; no method of the     *)
(* package reads an address, so two pointers to structs with the same      *)
(* field values are one element of the pool `nodes`.  A Node interface     *)
(* value is a record whose field dyn is the dynamic type ("nil" for the    *)
(* nil interface) and whose field isnil says that the pointer it holds is  *)
(* nil.  The Content of a text node is a sequence of one-character        *)
(* strings.  A call that panics has the result "panic".                    *)
(***************************************************************************)
EXTENDS Integers, Sequences, FiniteSets, TLC

VARIABLES
    nodes,  \* the nodes built so far
    toks,   \* the tokens produced so far
    last    \* the last call: operation, operands and what it returned

vars == <<nodes, toks, last>>

(***************************************************************************)
(* Bounds of the model.                                                    *)
(***************************************************************************)
MaxObjects == 3
MaxPos == 1
MaxChildren == 2

(***************************************************************************)
(* Enumerations.                                                           *)
(***************************************************************************)
TokenText == 0
TokenHole == 1
TokenLBrace == 2
TokenRBrace == 3
TokenWhitespace == 4
TokenEOF == 5
TokenTypes == {TokenText, TokenHole, TokenLBrace, TokenRBrace, TokenWhitespace, TokenEOF}

NodePattern == 0
NodeHole == 1
NodeText == 2
NodeBlock == 3

\* HoleType and Quantifier are declared outside type.go; type.go names only
\* HoleAny and QuantNone.  One further value of each stands for the others.
HoleAny == "any"
HoleIdentifier == "identifier"
HoleTypes == {HoleAny, HoleIdentifier}
QuantNone == "none"
QuantBlock == "block"
Quantifiers == {QuantNone, QuantBlock}

Names == {"x", "y"}
Positions == 0..MaxPos

\* "a b", "a  b" and "a\tb"
TextContents == {<<"a", " ", "b">>, <<"a", " ", " ", "b">>, <<"a", "\t", "b">>}

(***************************************************************************)
(* HoleConfig and Token.                                                   *)
(***************************************************************************)
HoleConfig(type, quantifier, name) ==
    [Type |-> type, Quantifier |-> quantifier, Name |-> name]

HoleConfigs ==
    {HoleConfig(t, q, n) : t \in HoleTypes, q \in Quantifiers, n \in Names}

\* the zero HoleConfig: the Config of the model's records that are no hole
ZeroConfig == HoleConfig("", "", "")

\* A *HoleConfig: hasConfig is FALSE for the nil pointer.
Token(type, value, position, hasConfig, config) ==
    [Type |-> type, Value |-> value, Position |-> position,
     hasConfig |-> hasConfig, HoleConfig |-> config]

ZeroToken == Token(TokenText, "", 0, FALSE, ZeroConfig)

HoleConfigEqualNoQuantifier(h, other) ==
    /\ h.Name = other.Name
    /\ h.Type = other.Type

HoleConfigEqual(h, other) ==
    /\ h.Name = other.Name
    /\ h.Type = other.Type
    /\ h.Quantifier = other.Quantifier

TokenEqualNoPosition(t, other) ==
    IF t.Type # other.Type \/ t.Value # other.Value
    THEN FALSE
    ELSE IF ~t.hasConfig /\ ~other.hasConfig
    THEN TRUE
    ELSE IF ~t.hasConfig \/ ~other.hasConfig
    THEN FALSE
    ELSE HoleConfigEqual(t.HoleConfig, other.HoleConfig)

TokenEqual(t, other) ==
    IF t.Type # other.Type \/ t.Value # other.Value \/ t.Position # other.Position
    THEN FALSE
    ELSE IF ~t.hasConfig /\ ~other.hasConfig
    THEN TRUE
    ELSE IF ~t.hasConfig \/ ~other.hasConfig
    THEN FALSE
    ELSE HoleConfigEqual(t.HoleConfig, other.HoleConfig)

(***************************************************************************)
(* Nodes.                                                                  *)
(***************************************************************************)
Node(dyn, isnil, config, content, children, pos) ==
    [dyn |-> dyn, isnil |-> isnil, Config |-> config, Content |-> content,
     Children |-> children, pos |-> pos]

\* the nil interface value
NilNode == Node("nil", TRUE, ZeroConfig, <<>>, <<>>, 0)

\* nil pointers of the four variants, held in a Node interface
NilPointer(dyn) == Node(dyn, TRUE, ZeroConfig, <<>>, <<>>, 0)

DynTypes == {"*PatternNode", "*HoleNode", "*TextNode", "*BlockNode"}

NilArguments == {NilNode} \cup {NilPointer(d) : d \in DynTypes}

PatternNode(children, pos) ==
    Node("*PatternNode", FALSE, ZeroConfig, <<>>, children, pos)

HoleNode(config, pos) ==
    Node("*HoleNode", FALSE, config, <<>>, <<>>, pos)

TextNode(content, pos) ==
    Node("*TextNode", FALSE, ZeroConfig, content, <<>>, pos)

\* BlockNode.Content is held in the field Children of the record
BlockNode(content, pos) ==
    Node("*BlockNode", FALSE, ZeroConfig, <<>>, content, pos)

NewHoleNodeZeroPos(name, pos) ==
    HoleNode(HoleConfig(HoleAny, QuantNone, name), 0)

NewHoleNode(name, pos) ==
    HoleNode(HoleConfig(HoleAny, QuantNone, name), pos)

\* Type() of the four variants: no receiver is dereferenced
Type(n) ==
    CASE n.dyn = "*PatternNode" -> NodePattern
      [] n.dyn = "*HoleNode" -> NodeHole
      [] n.dyn = "*TextNode" -> NodeText
      [] n.dyn = "*BlockNode" -> NodeBlock

Position(n) == n.pos

Name(h) == h.Config.Name

\* other.(*PatternNode) with the comma-ok form: no panic, ok on a nil pointer
PatternNodeEqualAnyContainer(p, other) ==
    IF other.dyn \in {"*PatternNode", "*BlockNode"} THEN "true" ELSE "false"

PatternNodeEqual(p, other) ==
    IF other.dyn = "*PatternNode" THEN "true" ELSE "false"

HoleNodeEqualPosOrdered(h, other) ==
    IF other.dyn = "*HoleNode"
    THEN IF other.isnil
         THEN "panic"
         ELSE IF /\ h.Config.Name = other.Config.Name
                 /\ h.Config.Type = other.Config.Type
                 /\ h.Config.Quantifier = other.Config.Quantifier
                 /\ h.pos <= other.pos
              THEN "true" ELSE "false"
    ELSE "false"

HoleNodeEqual(h, other) ==
    IF other.dyn = "*HoleNode"
    THEN IF other.isnil
         THEN "panic"   \* otherHole.Config of a nil *HoleNode
         ELSE IF /\ h.Config.Name = other.Config.Name
                 /\ h.Config.Type = other.Config.Type
                 /\ h.Config.Quantifier = other.Config.Quantifier
                 /\ h.pos = other.pos
              THEN "true" ELSE "false"
    ELSE "false"

TextNodeEqual(t, other) ==
    IF other.dyn = "nil"
    THEN "panic"        \* other.Type() on the nil interface
    ELSE IF Type(other) # NodeText
    THEN "false"
    ELSE IF other.isnil
    THEN "panic"        \* other.(*TextNode).Content of a nil *TextNode
    ELSE IF t.Content = other.Content THEN "true" ELSE "false"

BlockNodeEqual(b, other) ==
    IF other.dyn = "*BlockNode" THEN "true" ELSE "false"

\* a.Equal(b): dispatch on the dynamic type of the receiver
Equal(a, b) ==
    CASE a.dyn = "*PatternNode" -> PatternNodeEqual(a, b)
      [] a.dyn = "*HoleNode" -> HoleNodeEqual(a, b)
      [] a.dyn = "*TextNode" -> TextNodeEqual(a, b)
      [] a.dyn = "*BlockNode" -> BlockNodeEqual(a, b)

RECURSIVE nodesEqualFrom(_, _, _)
nodesEqualFrom(a, b, i) ==
    IF i > Len(a)
    THEN "true"
    ELSE LET r == Equal(a[i], b[i])
         IN  IF r = "true" THEN nodesEqualFrom(a, b, i + 1) ELSE r

nodesEqual(a, b) ==
    IF Len(a) # Len(b) THEN "false" ELSE nodesEqualFrom(a, b, 1)

(***************************************************************************)
(* String().  A returned string is modelled as the sequence of its lines   *)
(* (the pieces between "\n"); TextNode quotes its content, so a newline    *)
(* arises only from the container nodes' own formatting.                   *)
(***************************************************************************)
Digits == <<"0", "1", "2", "3", "4", "5", "6", "7", "8", "9">>

\* fmt's %d of a non-negative int
RECURSIVE Itoa(_)
Itoa(n) ==
    IF n < 10 THEN Digits[n + 1] ELSE Itoa(n \div 10) \o Digits[(n % 10) + 1]

\* strconv.Quote without its surrounding quotes, on the characters of the model
RECURSIVE Quoted(_)
Quoted(content) ==
    IF content = <<>>
    THEN <<>>
    ELSE (IF Head(content) = "\t" THEN <<"\\", "t">> ELSE <<Head(content)>>)
             \o Quoted(Tail(content))

RECURSIVE Flatten(_)
Flatten(chars) ==
    IF chars = <<>> THEN "" ELSE Head(chars) \o Flatten(Tail(chars))

HoleNodeString(h) ==
    IF h.Config.Type = HoleAny /\ h.Config.Quantifier = QuantNone
    THEN <<"HoleNode(" \o h.Config.Name \o ")">>
    ELSE <<"HoleNode(" \o h.Config.Name \o ":" \o h.Config.Type \o ")"
               \o h.Config.Quantifier>>

TextNodeString(t) == <<"TextNode(" \o Flatten(Quoted(t.Content)) \o ")">>

\* "  %d: %s\n" of a child whose "\n" were replaced by "\n  "
ChildLines(i, childStr) ==
    [k \in 1..Len(childStr) |->
        IF k = 1 THEN "  " \o Itoa(i) \o ": " \o childStr[k]
                 ELSE "  " \o childStr[k]]

RECURSIVE String(_)
RECURSIVE ChildrenLines(_, _)
ChildrenLines(children, i) ==
    IF i > Len(children)
    THEN <<>>
    ELSE ChildLines(i - 1, String(children[i])) \o ChildrenLines(children, i + 1)

PatternNodeString(p) ==
    <<"PatternNode(" \o Itoa(Len(p.Children)) \o " children):">>
        \o ChildrenLines(p.Children, 1)

BlockNodeString(b) ==
    <<"BlockNode(" \o Itoa(Len(b.Children)) \o " children):">>
        \o ChildrenLines(b.Children, 1)

String(n) ==
    CASE n.dyn = "*PatternNode" -> PatternNodeString(n)
      [] n.dyn = "*HoleNode" -> HoleNodeString(n)
      [] n.dyn = "*TextNode" -> TextNodeString(n)
      [] n.dyn = "*BlockNode" -> BlockNodeString(n)

(***************************************************************************)
(* Inputs.                                                                 *)
(***************************************************************************)
SeqsUpTo(S, n) == UNION {[1..k -> S] : k \in 0..n}

\* what a container may hold: PatternNode is only ever the root
ChildSeqs == SeqsUpTo({n \in nodes : n.dyn # "*PatternNode"}, MaxChildren)

\* the hole configurations the lexer produces: the one capture kind, the
\* exactly-one quantifier of :[name] and the block quantifier of :[[name]]
LexConfigs == {HoleConfig(HoleAny, q, n) : q \in Quantifiers, n \in Names}

HoleSyntax(c) ==
    IF c.Quantifier = QuantBlock THEN ":[[" \o c.Name \o "]]" ELSE ":[" \o c.Name \o "]"

\* tokens of the lexer: only Hole tokens carry a HoleConfig
LexTokens ==
    {Token(TokenText, "a", p, FALSE, ZeroConfig) : p \in Positions}
        \cup {Token(TokenHole, HoleSyntax(c), p, TRUE, c) :
                  c \in {d \in LexConfigs : d.Name = "x"}, p \in Positions}

\* Token structs as a caller may write them, a HoleConfig on any type of token
TokenStructs ==
    {Token(ty, v, p, FALSE, ZeroConfig) :
         ty \in {TokenText, TokenHole}, v \in {"a", ":[x]"}, p \in Positions}
        \cup UNION {{Token(ty, v, p, TRUE, c) :
                         ty \in {TokenText, TokenHole}, v \in {"a", ":[x]"},
                         p \in Positions} :
                    c \in {d \in LexConfigs : d.Name = "x"}}

(***************************************************************************)
(* The state machine.                                                      *)
(***************************************************************************)
NoCall ==
    [op |-> "none", a |-> NilNode, b |-> NilNode, ta |-> ZeroToken,
     tb |-> ZeroToken, res |-> "none", num |-> 0, name |-> "", out |-> <<>>]

Init ==
    /\ nodes = {}
    /\ toks = {}
    /\ last = NoCall

CanAllocate == Cardinality(nodes) + Cardinality(toks) < MaxObjects

\* &HoleNode{Config: config, pos: pos}
BuildHoleNode(config, pos) ==
    /\ CanAllocate
    /\ HoleNode(config, pos) \notin nodes
    /\ nodes' = nodes \cup {HoleNode(config, pos)}
    /\ last' = NoCall
    /\ UNCHANGED toks

CallNewHoleNode(name, pos) ==
    /\ CanAllocate
    /\ nodes' = nodes \cup {NewHoleNode(name, pos)}
    /\ last' = [NoCall EXCEPT !.op = "NewHoleNode", !.name = name, !.num = pos,
                              !.a = NewHoleNode(name, pos)]
    /\ UNCHANGED toks

BuildTextNode(content, pos) ==
    /\ CanAllocate
    /\ TextNode(content, pos) \notin nodes
    /\ nodes' = nodes \cup {TextNode(content, pos)}
    /\ last' = NoCall
    /\ UNCHANGED toks

BuildBlockNode(content, pos) ==
    /\ CanAllocate
    /\ BlockNode(content, pos) \notin nodes
    /\ nodes' = nodes \cup {BlockNode(content, pos)}
    /\ last' = NoCall
    /\ UNCHANGED toks

BuildPatternNode(children, pos) ==
    /\ CanAllocate
    /\ PatternNode(children, pos) \notin nodes
    /\ nodes' = nodes \cup {PatternNode(children, pos)}
    /\ last' = NoCall
    /\ UNCHANGED toks

LexToken(t) ==
    /\ CanAllocate
    /\ t \notin toks
    /\ toks' = toks \cup {t}
    /\ last' = NoCall
    /\ UNCHANGED nodes

CallType(n) ==
    /\ last' = [NoCall EXCEPT !.op = "Type", !.a = n, !.num = Type(n)]
    /\ UNCHANGED <<nodes, toks>>

CallPosition(n) ==
    /\ last' = [NoCall EXCEPT !.op = "Position", !.a = n, !.num = Position(n)]
    /\ UNCHANGED <<nodes, toks>>

CallName(h) ==
    /\ h.dyn = "*HoleNode"
    /\ last' = [NoCall EXCEPT !.op = "Name", !.a = h, !.name = Name(h)]
    /\ UNCHANGED <<nodes, toks>>

\* a plausible slip in TextNode.String: t.Content = escaped[1:len(escaped)-1]
CallStringStoringEscaped(n) ==
    /\ last' = [NoCall EXCEPT !.op = "String", !.a = n, !.out = String(n)]
    /\ nodes' = IF n.dyn = "*TextNode"
                THEN (nodes \ {n}) \cup {[n EXCEPT !.Content = Quoted(n.Content)]}
                ELSE nodes
    /\ UNCHANGED toks

CallString(n) ==
    /\ last' = [NoCall EXCEPT !.op = "String", !.a = n, !.out = String(n)]
    /\ UNCHANGED <<nodes, toks>>

CallEqual(a, b) ==
    /\ last' = [NoCall EXCEPT !.op = "Equal", !.a = a, !.b = b, !.res = Equal(a, b)]
    /\ UNCHANGED <<nodes, toks>>

\* nodesEqual on the children of two container nodes
CallNodesEqual(a, b) ==
    /\ a.dyn \in {"*PatternNode", "*BlockNode"}
    /\ b.dyn \in {"*PatternNode", "*BlockNode"}
    /\ last' = [NoCall EXCEPT !.op = "nodesEqual", !.a = a, !.b = b,
                              !.res = nodesEqual(a.Children, b.Children)]
    /\ UNCHANGED <<nodes, toks>>

Bool(v) == IF v THEN "true" ELSE "false"

CallTokenEqual(t, other) ==
    /\ last' = [NoCall EXCEPT !.op = "Token.Equal", !.ta = t, !.tb = other,
                              !.res = Bool(TokenEqual(t, other))]
    /\ UNCHANGED <<nodes, toks>>

\* the operands are kept as the HoleConfig of two otherwise zero tokens
CallHoleConfigEqual(h, other) ==
    /\ last' = [NoCall EXCEPT !.op = "HoleConfig.Equal",
                              !.ta = [ZeroToken EXCEPT !.HoleConfig = h],
                              !.tb = [ZeroToken EXCEPT !.HoleConfig = other],
                              !.res = Bool(HoleConfigEqual(h, other))]
    /\ UNCHANGED <<nodes, toks>>

\* the configurations at hand: those of the hole nodes and of the hole tokens
ConfigsAtHand ==
    {n.Config : n \in {m \in nodes : m.dyn = "*HoleNode"}}
        \cup {t.HoleConfig : t \in {u \in toks : u.hasConfig}}

Next ==
    \/ \E c \in LexConfigs, p \in Positions : BuildHoleNode(c, p)
    \/ \E n \in Names, p \in Positions : CallNewHoleNode(n, p)
    \/ \E c \in TextContents, p \in Positions : BuildTextNode(c, p)
    \/ \E c \in ChildSeqs, p \in Positions : BuildBlockNode(c, p)
    \/ \E c \in ChildSeqs, p \in Positions : BuildPatternNode(c, p)
    \/ \E t \in LexTokens : LexToken(t)
    \/ \E n \in nodes : CallType(n)
    \/ \E n \in nodes : CallPosition(n)
    \/ \E n \in nodes : CallName(n)
    \/ \E n \in nodes : CallString(n)
    \/ \E a \in nodes, b \in nodes \cup NilArguments : CallEqual(a, b)
    \/ \E a \in nodes, b \in nodes : CallNodesEqual(a, b)
    \/ \E t \in toks, o \in toks : CallTokenEqual(t, o)
    \/ \E h \in ConfigsAtHand, o \in ConfigsAtHand : CallHoleConfigEqual(h, o)

Spec == Init /\ [][Next]_vars

\* Token.Equal and HoleConfig.Equal on every pair of structs
NextStructs ==
    \/ \E t \in TokenStructs, o \in TokenStructs : CallTokenEqual(t, o)
    \/ \E h \in HoleConfigs, o \in HoleConfigs : CallHoleConfigEqual(h, o)

SpecStructs == Init /\ [][NextStructs]_vars

\* the constructor NewHoleNode and the methods of the holes it returns
NextHoles ==
    \/ \E n \in Names, p \in Positions : CallNewHoleNode(n, p)
    \/ \E n \in nodes : CallType(n)
    \/ \E n \in nodes : CallPosition(n)
    \/ \E n \in nodes : CallName(n)
    \/ \E a \in nodes, b \in nodes : CallEqual(a, b)

SpecHoles == Init /\ [][NextHoles]_vars

(***************************************************************************)
(* Notions of the specification that the properties are stated with.       *)
(***************************************************************************)
\* a node that was built: a non-nil pointer of one of the four variants
IsNode(n) == n.dyn \in DynTypes /\ ~n.isnil

\* same variant and same logical content, whatever the positions
RECURSIVE SameContent(_, _)
SameContent(a, b) ==
    /\ a.dyn = b.dyn
    /\ a.Config = b.Config
    /\ a.Content = b.Content
    /\ Len(a.Children) = Len(b.Children)
    /\ \A i \in 1..Len(a.Children) : SameContent(a.Children[i], b.Children[i])

Whitespace == {" ", "\t"}

\* a text with every run of whitespace replaced by one space
RECURSIVE Collapse(_)
Collapse(content) ==
    IF content = <<>>
    THEN <<>>
    ELSE IF Head(content) \in Whitespace
    THEN IF Len(content) > 1 /\ content[2] \in Whitespace
         THEN Collapse(Tail(content))
         ELSE <<" ">> \o Collapse(Tail(content))
    ELSE <<Head(content)>> \o Collapse(Tail(content))

(***************************************************************************)
(* C1: node equality ignores position: two built nodes of the same variant *)
(* with identical logical content compare equal under Equal, whatever      *)
(* their positions.                                                        *)
(***************************************************************************)
C1_EqualIgnoresPosition ==
    (/\ last.op = "Equal"
     /\ IsNode(last.b)
     /\ SameContent(last.a, last.b))
        => last.res = "true"

(***************************************************************************)
(* C2: Equal of a container node (PatternNode, BlockNode) returns true     *)
(* exactly when the other node is of the same variant and its children     *)
(* have the same length and are pairwise Equal.                            *)
(***************************************************************************)
C2_ContainerEqualComparesChildren ==
    (/\ last.op = "Equal"
     /\ last.a.dyn \in {"*PatternNode", "*BlockNode"}
     /\ IsNode(last.b))
        => (last.res = "true"
              <=> /\ last.b.dyn = last.a.dyn
                  /\ nodesEqual(last.a.Children, last.b.Children) = "true")

(***************************************************************************)
(* C3: HoleConfig.Equal returns true if and only if Name, Type and         *)
(* Quantifier all agree.                                                   *)
(***************************************************************************)
C3_HoleConfigEqualAllFields ==
    last.op = "HoleConfig.Equal"
        => (last.res = "true"
              <=> /\ last.ta.HoleConfig.Name = last.tb.HoleConfig.Name
                  /\ last.ta.HoleConfig.Type = last.tb.HoleConfig.Type
                  /\ last.ta.HoleConfig.Quantifier = last.tb.HoleConfig.Quantifier)

\* a call on two configurations that differ in the quantifier alone
C3_Witness ==
    /\ last.op = "HoleConfig.Equal"
    /\ last.ta.HoleConfig.Name = last.tb.HoleConfig.Name
    /\ last.ta.HoleConfig.Type = last.tb.HoleConfig.Type
    /\ last.ta.HoleConfig.Quantifier # last.tb.HoleConfig.Quantifier
    /\ last.res = "false"

(***************************************************************************)
(* C4: nodes of different variants are never equal: Equal returns false    *)
(* whenever the dynamic types of receiver and argument differ.             *)
(***************************************************************************)
C4_DifferentKindsNeverEqual ==
    (/\ last.op = "Equal"
     /\ last.b.dyn \in DynTypes
     /\ last.a.dyn # last.b.dyn)
        => last.res = "false"

\* a text node compared with a hole node
C4_Witness ==
    /\ last.op = "Equal"
    /\ last.a.dyn = "*TextNode"
    /\ last.b.dyn = "*HoleNode"
    /\ IsNode(last.b)
    /\ last.res = "false"

(***************************************************************************)
(* C5: two text nodes whose contents differ only in the length or the      *)
(* characters of a whitespace run compare equal under Equal.               *)
(***************************************************************************)
C5_WhitespaceInsensitiveEqual ==
    (/\ last.op = "Equal"
     /\ last.a.dyn = "*TextNode"
     /\ last.b.dyn = "*TextNode"
     /\ IsNode(last.b)
     /\ Collapse(last.a.Content) = Collapse(last.b.Content))
        => last.res = "true"

(***************************************************************************)
(* C6: nodes and tokens are read-only after construction: no step removes  *)
(* or alters a node or a token that was built, whatever calls are made.    *)
(***************************************************************************)
C6_ReadOnlyAfterConstruction ==
    [][nodes \subseteq nodes' /\ toks \subseteq toks']_vars

\* String() was called on a built text node with a character to escape,
\* next to a token and a further node
C6_Witness ==
    /\ last.op = "String"
    /\ last.a \in nodes
    /\ last.a.dyn = "*TextNode"
    /\ Quoted(last.a.Content) # last.a.Content
    /\ toks # {}
    /\ Cardinality(nodes) > 1

(***************************************************************************)
(* C7: NewHoleNode(name, pos) builds a hole with the given name, the       *)
(* capture kind HoleAny and the quantifier QuantNone; its Position() is    *)
(* pos and its Name() is name.                                             *)
(***************************************************************************)
C7_NewHoleNodeDefaults ==
    last.op = "NewHoleNode"
        => /\ last.a.dyn = "*HoleNode"
           /\ last.a.Config.Name = last.name
           /\ last.a.Config.Type = HoleAny
           /\ last.a.Config.Quantifier = QuantNone
           /\ Position(last.a) = last.num
           /\ Name(last.a) = last.name
           /\ last.a \in nodes

\* NewHoleNode("y", MaxPos) was called
C7_Witness ==
    /\ last.op = "NewHoleNode"
    /\ last.name = "y"
    /\ last.num = MaxPos
    /\ last.num > 0

(***************************************************************************)
(* C8: Token.Equal returns true exactly when Type, Value and Position      *)
(* agree and the hole configurations are both absent, or both present and  *)
(* equal under HoleConfig.Equal.                                           *)
(***************************************************************************)
C8_TokenEqual ==
    last.op = "Token.Equal"
        => (last.res = "true"
              <=> /\ last.ta.Type = last.tb.Type
                  /\ last.ta.Value = last.tb.Value
                  /\ last.ta.Position = last.tb.Position
                  /\ \/ ~last.ta.hasConfig /\ ~last.tb.hasConfig
                     \/ /\ last.ta.hasConfig
                        /\ last.tb.hasConfig
                        /\ HoleConfigEqual(last.ta.HoleConfig, last.tb.HoleConfig))

\* two tokens with equal hole configurations that differ in Position alone
C8_Witness ==
    /\ last.op = "Token.Equal"
    /\ last.ta.hasConfig
    /\ [last.ta EXCEPT !.Position = last.tb.Position] = last.tb
    /\ last.ta.Position # last.tb.Position
    /\ last.res = "false"

(***************************************************************************)
(* C9: Equal is an equivalence relation on the built nodes: reflexive,     *)
(* symmetric and transitive.                                               *)
(***************************************************************************)
C9_EqualIsEquivalence ==
    \A a \in nodes :
        /\ Equal(a, a) = "true"
        /\ \A b \in nodes :
            /\ Equal(a, b) = "true" => Equal(b, a) = "true"
            /\ \A c \in nodes :
                   (Equal(a, b) = "true" /\ Equal(b, c) = "true")
                       => Equal(a, c) = "true"

\* Equal returned true on two different nodes, the second of which is Equal
\* to a third
C9_Witness ==
    /\ last.op = "Equal"
    /\ last.res = "true"
    /\ last.a # last.b
    /\ {last.a, last.b} \subseteq nodes
    /\ \E c \in nodes \ {last.a, last.b} : Equal(last.b, c) = "true"

(***************************************************************************)
(* C10: Equal is total: on an absent argument (the nil interface or a nil  *)
(* pointer of any variant) every variant's Equal returns false and does    *)
(* not panic.                                                              *)
(***************************************************************************)
C10_EqualFalseOnAbsent ==
    (last.op = "Equal" /\ last.b \in NilArguments) => last.res = "false"

====
